---- MODULE Spec2Model ----
(***************************************************************************)
(* PDF Excel Field Mapper: the App component (project/src/App.tsx, and the *)
(* earlier revision of it kept in unnamed/part_000) and the PDFViewer      *)
(* component (project/src/components/PDFViewer.tsx).                       *)
(*                                                                         *)
(* Strings that the program builds (cell texts, file names) are sequences  *)
(* of one-character strings; column names are atoms.  A spreadsheet cell   *)
(* is a record [t, s, n]: t = "str" with text s, or t = "num" with value n.*)
(* A row is a function from the columns it has a cell for to cells.        *)
(***************************************************************************)
EXTENDS Integers, Sequences, FiniteSets, TLC

VARIABLES
    build,                   \* which revision of App runs: "App" or "part_000"
    pdfFile,                 \* App state: the template file, or NoFile
    excelFile,               \* App state: the spreadsheet file, or NoFile
    excelData,               \* App state: sequence of rows
    excelColumns,            \* App state: sequence of column names
    mappings,                \* App state: sequence of FieldMapping
    customFilename,          \* App state: base filename typed by the user
    selectedFilenameFields,  \* App state: sequence of column names ("" = unset)
    viewer,                  \* PDFViewer state, or Unmounted
    pendingLoads,            \* loadPDF calls suspended at an await (template files)
    pendingReads,            \* handleExcelUpload calls suspended at file.arrayBuffer()
    run,                     \* the generatePDFs call in progress
    parked,                  \* a second generatePDFs call, suspended at an await
    sink,                    \* what a.click() handed to the browser, in order
    console,                 \* console.error messages, in order
    alerts,                  \* alert() messages, in order
    lastOp                   \* the registry handler that ran last

appVars == <<pdfFile, excelFile, excelData, excelColumns, mappings,
             customFilename, selectedFilenameFields>>
viewVars == <<viewer, pendingLoads, pendingReads>>
genVars == <<run, parked, sink, console>>
vars == <<build, appVars, viewVars, genVars, alerts, lastOp>>

----------------------------------------------------------------------------
(* Bounds of the model *)

MaxMappings == 2         \* longest mapping registry
MaxRows == 2             \* most rows in a drawn row set
MaxFilenameFields == 2   \* longest filename field list
MaxRegistry == 3         \* longest registry of the registry-only specification
MaxAlerts == 1           \* most "select a field" alerts shown

----------------------------------------------------------------------------
(* Strings *)

Max(a, b) == IF a >= b THEN a ELSE b

DigitChar(d) == <<"0", "1", "2", "3", "4", "5", "6", "7", "8", "9">>[d + 1]

RECURSIVE Digits(_)
\* String(n) for a natural number n
Digits(n) == IF n < 10 THEN <<DigitChar(n)>>
             ELSE Digits(n \div 10) \o <<DigitChar(n % 10)>>

StrCell(s) == [t |-> "str", s |-> s, n |-> 0]
NumCell(n) == [t |-> "num", s |-> <<>>, n |-> n]

\* String(v) of a cell value
JsString(c) == IF c.t = "num" THEN Digits(c.n) ELSE c.s

\* JavaScript truthiness of a cell value: 0 and "" are falsy
Truthy(c) == IF c.t = "num" THEN c.n # 0 ELSE c.s # <<>>

\* String(row[field] || ""): a missing key reads as undefined, which is falsy
ResolveValue(row, field) ==
    IF field \in DOMAIN row /\ Truthy(row[field]) THEN JsString(row[field]) ELSE <<>>

RECURSIVE JoinFrom(_, _, _)
JoinFrom(parts, sep, i) ==
    IF i > Len(parts) THEN <<>>
    ELSE IF i = Len(parts) THEN parts[i]
    ELSE parts[i] \o sep \o JoinFrom(parts, sep, i + 1)

\* Array.prototype.join
Join(parts, sep) == JoinFrom(parts, sep, 1)

DotPdf == <<".", "p", "d", "f">>
Dash == <<"-">>

\* name.replace(/\.[^/.]+$/, ""): drop a last ".ext" whose ext is non-empty
\* and holds no "/" (it holds no "." since the dot is the last one)
StripExtension(name) ==
    LET dots == {i \in 1..Len(name) : name[i] = "."}
        last == IF dots = {} THEN 0 ELSE CHOOSE i \in dots : \A j \in dots : j <= i
    IN IF last > 0 /\ last < Len(name)
          /\ \A j \in (last + 1)..Len(name) : name[j] # "/"
       THEN SubSeq(name, 1, last - 1)
       ELSE name

\* name.replace(".pdf", ""): drop the first occurrence of ".pdf"
ReplaceDotPdf(name) ==
    LET hits == {i \in 1..(Len(name) - 3) : SubSeq(name, i, i + 3) = DotPdf}
    IN IF hits = {} THEN name
       ELSE LET first == CHOOSE i \in hits : \A j \in hits : i <= j
            IN SubSeq(name, 1, first - 1) \o SubSeq(name, first + 4, Len(name))

----------------------------------------------------------------------------
(* Files, rows and mappings the user can supply *)

NoFile == [name |-> <<>>, type |-> "none", pages |-> <<>>, rows |-> <<>>]

PdfType == "application/pdf"

\* Templates: pages is the sequence of page heights
Template1 == [name |-> <<"t", ".", "p", "d", "f">>, type |-> PdfType,
              pages |-> <<842>>, rows |-> <<>>]
Template2 == [name |-> <<"u", ".", "p", "d", "f">>, type |-> PdfType,
              pages |-> <<842, 595>>, rows |-> <<>>]
\* a file picked in the template input that is not a PDF
NotAPdf == [name |-> <<"n", ".", "t", "x", "t">>, type |-> "text/plain",
            pages |-> <<>>, rows |-> <<>>]
Templates == {Template1, Template2}

RowSom == [Name |-> StrCell(<<"S", "o", "m">>), Amount |-> NumCell(500)]
RowNoAmount == [Name |-> StrCell(<<"b">>)]
RowZero == [Name |-> StrCell(<<"c">>), Amount |-> NumCell(0)]
RowPool == {RowSom, RowNoAmount, RowZero}

SheetName == <<"m", "y", ".", "d", ".", "x", "l", "s", "x">>

\* Spreadsheets: rows is what sheet_to_json returns for the first sheet
SheetA == [name |-> SheetName, type |-> "sheet", pages |-> <<>>,
           rows |-> <<RowSom, RowZero>>]
SheetB == [name |-> <<"b", ".", "x", "l", "s">>, type |-> "sheet", pages |-> <<>>,
           rows |-> <<RowNoAmount>>]
SheetEmpty == [name |-> <<"e", ".", "x", "l", "s">>, type |-> "sheet", pages |-> <<>>,
               rows |-> <<>>]
Sheets == {SheetA, SheetB, SheetEmpty}

ColumnOrder == <<"Name", "Amount">>
Columns == {"Name", "Amount"}

\* Object.keys(jsonData[0] || {})
KeysOfFirst(rows) ==
    IF Len(rows) = 0 THEN <<>>
    ELSE SelectSeq(ColumnOrder, LAMBDA c : c \in DOMAIN rows[1])

Range(s) == {s[i] : i \in 1..Len(s)}

SeqsUpTo(S, lo, hi) == UNION {[1..n -> S] : n \in lo..hi}

\* sequences without repetition
DistinctSeqs(S, lo, hi) ==
    {q \in SeqsUpTo(S, lo, hi) : \A a, b \in 1..Len(q) : q[a] = q[b] => a = b}

\* the positions a click can produce (document space), see handleCanvasClick
MappingPool == {[x |-> 100, y |-> 50, field |-> "Amount", page |-> 1],
                [x |-> 40, y |-> 700, field |-> "Name", page |-> 1],
                [x |-> 33, y |-> 10, field |-> "Name", page |-> 2],
                [x |-> 10, y |-> 10, field |-> "Amount", page |-> 3]}

NoMapping == [x |-> 0, y |-> 0, field |-> "", page |-> 0]
NoOp == [op |-> "init", arg |-> NoMapping]

----------------------------------------------------------------------------
(* generatePDFs: pure parts *)

FontSize == 10
VerticalOffset == 5

\* customFont.widthOfTextAtSize(value, size): the embedded font's metrics,
\* taken as a fixed advance of 0.6 em per character
widthOfTextAtSize(value, size) == (Len(value) * size * 3) \div 5

\* StampOf taking the height of the first page for every mapping
StampOfFirstPage(pages, row, maps, k, centered) ==
    LET mapping == maps[k]
        height == pages[1]
        value == ResolveValue(row, mapping.field)
        textWidth == widthOfTextAtSize(value, FontSize)
    IN [m |-> k, page |-> mapping.page, text |-> value,
        x |-> IF centered THEN mapping.x - textWidth \div 2 ELSE mapping.x,
        y |-> height - mapping.y - VerticalOffset]

\* The text and position of one drawText call (App.tsx 94-105, part_000 86-94)
StampOf(pages, row, maps, k, centered) ==
    LET mapping == maps[k]
        height == pages[mapping.page]
        value == ResolveValue(row, mapping.field)
        textWidth == widthOfTextAtSize(value, FontSize)
    IN [m |-> k, page |-> mapping.page, text |-> value,
        x |-> IF centered THEN mapping.x - textWidth \div 2 ELSE mapping.x,
        y |-> height - mapping.y - VerticalOffset]

\* pages[mapping.page - 1] is defined
PageExists(pages, mapping) == mapping.page >= 1 /\ mapping.page <= Len(pages)

RECURSIVE DrawFromAbort(_, _, _, _, _)
\* DrawFrom with the missing page ending the pass instead of skipping one mapping
DrawFromAbort(pages, row, maps, k, centered) ==
    IF k > Len(maps) \/ ~PageExists(pages, maps[k]) THEN <<>>
    ELSE <<StampOf(pages, row, maps, k, centered)>>
         \o DrawFromAbort(pages, row, maps, k + 1, centered)

RECURSIVE DrawFrom(_, _, _, _, _)
\* one pass over the mappings, in order: the stamps drawn
DrawFrom(pages, row, maps, k, centered) ==
    IF k > Len(maps) THEN <<>>
    ELSE (IF PageExists(pages, maps[k])
          THEN <<StampOf(pages, row, maps, k, centered)>> ELSE <<>>)
         \o DrawFrom(pages, row, maps, k + 1, centered)

RECURSIVE PageErrorsFrom(_, _, _, _)
\* the console.error(`Page ${mapping.page} not found`) calls of one pass
PageErrorsFrom(pages, maps, k, rowIdx) ==
    IF k > Len(maps) THEN <<>>
    ELSE (IF PageExists(pages, maps[k])
          THEN <<>>
          ELSE <<[msg |-> "Page not found", page |-> maps[k].page, row |-> rowIdx]>>)
         \o PageErrorsFrom(pages, maps, k + 1, rowIdx)

\* All drawText calls made on one row's document before newPdf.save():
\* App.tsx draws once, centered; part_000 draws in the forEach and again
\* in the awaited Promise.all, both left-aligned.
DrawMappings(b, pages, row, maps) ==
    IF b = "App" THEN DrawFrom(pages, row, maps, 1, TRUE)
    ELSE DrawFrom(pages, row, maps, 1, FALSE) \o DrawFrom(pages, row, maps, 1, FALSE)

\* customFilename || excelFile?.name.replace(/\.[^/.]+$/, "") || ""
BaseFilename(custom, file) ==
    IF custom # <<>> THEN custom
    ELSE IF file # NoFile THEN StripExtension(file.name) ELSE <<>>

\* selectedFilenameFields.map((field) => String(row[field] || "")).filter(Boolean)
FieldValues(fields, row) ==
    SelectSeq([i \in 1..Len(fields) |-> ResolveValue(row, fields[i])],
              LAMBDA v : v # <<>>)

\* fieldValues.length > 0 ? `${base}-${fieldValues.join("-")}.pdf` : `${base}.pdf`
ComposeFilename(base, fieldValues) ==
    IF Len(fieldValues) > 0
    THEN base \o Dash \o Join(fieldValues, Dash) \o DotPdf
    ELSE base \o DotPdf

\* the file name given to one row's document
NewFilename(b, snap, row) ==
    IF b = "App"
    THEN ComposeFilename(BaseFilename(snap.customFilename, snap.excelFile),
                         FieldValues(snap.selectedFilenameFields, row))
    ELSE ReplaceDotPdf(snap.pdfFile.name) \o Dash
         \o ResolveValue(row, snap.selectedFilenameFields[1]) \o DotPdf

----------------------------------------------------------------------------
(* generatePDFs: the async function, one action per resumption *)

EmptyDoc == [src |-> 0, pages |-> <<>>, font |-> FALSE, stamps |-> <<>>]

NoSnap == [pdfFile |-> NoFile, excelFile |-> NoFile, excelData |-> <<>>,
           mappings |-> <<>>, customFilename |-> <<>>,
           selectedFilenameFields |-> <<>>]

IdleRun == [pc |-> "idle", snap |-> NoSnap, fontBytes |-> FALSE, pdfDoc |-> <<>>,
            row |-> 0, newPdf |-> EmptyDoc, pdfsToDownload |-> <<>>, i |-> 0,
            failCause |-> "none"]

\* The state the closure of generatePDFs captured at the render before the click
Snapshot == [pdfFile |-> pdfFile, excelFile |-> excelFile, excelData |-> excelData,
             mappings |-> mappings, customFilename |-> customFilename,
             selectedFilenameFields |-> selectedFilenameFields]

\* The Generate button is rendered and not disabled
\* (App.tsx 225, 290; part_000 211, 230: disabled={!filenameField})
GenerateEnabled ==
    /\ Len(mappings) > 0
    /\ \A k \in 1..Len(selectedFilenameFields) : selectedFilenameFields[k] # ""
    /\ build = "part_000" => Len(selectedFilenameFields) = 1

ErrorAlert == "Error generating PDFs. Please check the console for details."

\* the catch block of generatePDFs
Catch(cause) ==
    /\ run' = [run EXCEPT !.pc = "failed", !.failCause = cause]
    /\ console' = Append(console, [msg |-> "Error generating PDFs", page |-> 0,
                                   row |-> run.row])
    /\ alerts' = Append(alerts, ErrorAlert)
    /\ UNCHANGED sink

\* Emit with the newest document put first
EmitFront(item) == <<item>> \o sink

\* a.download = filename; a.click()
Emit(item) == Append(sink, item)

\* click on Generate PDFs: the guard, then fetch(fontUrl) is awaited
generatePDFs ==
    /\ run.pc = "idle"
    /\ GenerateEnabled
    /\ UNCHANGED lastOp
    /\ \/ /\ (pdfFile = NoFile \/ Len(excelData) = 0 \/ Len(mappings) = 0)
          /\ UNCHANGED run
       \/ /\ ~(pdfFile = NoFile \/ Len(excelData) = 0 \/ Len(mappings) = 0)
          /\ run' = [IdleRun EXCEPT !.pc = "fetchFont", !.snap = Snapshot]
    /\ UNCHANGED <<build, parked, appVars, viewVars, sink, console, alerts>>

\* fetch(fontUrl).then(res => res.arrayBuffer()) settles
FontFetched ==
    /\ run.pc = "fetchFont"
    /\ UNCHANGED lastOp
    /\ \/ /\ run' = [run EXCEPT !.pc = "readTemplate", !.fontBytes = TRUE]
          /\ UNCHANGED <<sink, console, alerts>>
       \/ Catch("fontFetch")
    /\ UNCHANGED <<build, parked, appVars, viewVars>>

\* pdfFile.arrayBuffer() settles; PDFDocument.load(pdfBytes) is awaited
TemplateRead ==
    /\ run.pc = "readTemplate"
    /\ UNCHANGED lastOp
    /\ run' = [run EXCEPT !.pc = "loadTemplate"]
    /\ UNCHANGED <<build, parked, appVars, viewVars, sink, console, alerts>>

\* TemplateLoaded with the decode error reported but the row loop entered anyway
TemplateLoadedSwallow ==
    /\ run.pc = "loadTemplate"
    /\ UNCHANGED lastOp
    /\ \/ /\ run' = [run EXCEPT !.pc = "create", !.pdfDoc = run.snap.pdfFile.pages,
                                !.row = 1]
          /\ UNCHANGED <<sink, console, alerts>>
       \/ /\ run' = [run EXCEPT !.pc = "create", !.pdfDoc = <<>>, !.row = 1,
                                !.failCause = "templateLoad"]
          /\ console' = Append(console, [msg |-> "Error generating PDFs", page |-> 0,
                                         row |-> 0])
          /\ alerts' = Append(alerts, ErrorAlert)
          /\ UNCHANGED sink
    /\ UNCHANGED <<build, parked, appVars, viewVars>>

\* PDFDocument.load settles; the row loop starts with PDFDocument.create()
TemplateLoaded ==
    /\ run.pc = "loadTemplate"
    /\ UNCHANGED lastOp
    /\ \/ /\ run' = [run EXCEPT !.pc = "create", !.pdfDoc = run.snap.pdfFile.pages,
                                !.row = 1]
          /\ UNCHANGED <<sink, console, alerts>>
       \/ Catch("templateLoad")
    /\ UNCHANGED <<build, parked, appVars, viewVars>>

\* PDFDocument.create() settles; registerFontkit; copyPages is awaited
DocCreated ==
    /\ run.pc = "create"
    /\ UNCHANGED lastOp
    /\ run' = [run EXCEPT !.pc = "copyPages",
                          !.newPdf = [EmptyDoc EXCEPT !.src = run.row]]
    /\ UNCHANGED <<build, parked, appVars, viewVars, sink, console, alerts>>

\* copyPages settles; every page is added; embedFont is awaited
PagesCopied ==
    /\ run.pc = "copyPages"
    /\ UNCHANGED lastOp
    /\ run' = [run EXCEPT !.pc = "embedFont", !.newPdf.pages = run.pdfDoc]
    /\ UNCHANGED <<build, parked, appVars, viewVars, sink, console, alerts>>

\* FontEmbedded with the drawText calls not made by the time save starts
FontEmbeddedNoDraw ==
    /\ run.pc = "embedFont"
    /\ UNCHANGED lastOp
    /\ \/ /\ run' = [run EXCEPT !.pc = "drawAll", !.newPdf.font = TRUE]
          /\ UNCHANGED <<sink, console, alerts>>
       \/ Catch("embedFont")
    /\ UNCHANGED <<build, parked, appVars, viewVars>>

\* embedFont settles; every mapping is drawn; Promise.all is awaited
FontEmbedded ==
    /\ run.pc = "embedFont"
    /\ UNCHANGED lastOp
    /\ \/ LET row == run.snap.excelData[run.row]
              maps == run.snap.mappings
              pages == run.newPdf.pages
          IN /\ run' = [run EXCEPT !.pc = "drawAll", !.newPdf.font = TRUE,
                                   !.newPdf.stamps = DrawMappings(build, pages, row, maps)]
             /\ console' = console \o PageErrorsFrom(pages, maps, 1, run.row)
             /\ UNCHANGED <<sink, alerts>>
       \/ Catch("embedFont")
    /\ UNCHANGED <<build, parked, appVars, viewVars>>

\* Promise.all settles; newPdf.save() is awaited
DrawAwaited ==
    /\ run.pc = "drawAll"
    /\ UNCHANGED lastOp
    /\ run' = [run EXCEPT !.pc = "save"]
    /\ UNCHANGED <<build, parked, appVars, viewVars, sink, console, alerts>>

\* Saved with every document downloaded inside the row loop, unpaced
SavedUnpaced ==
    /\ run.pc = "save"
    /\ UNCHANGED lastOp
    /\ LET row == run.snap.excelData[run.row]
           item == [bytes |-> run.newPdf, filename |-> NewFilename(build, run.snap, row)]
           last == run.row = Len(run.snap.excelData)
       IN /\ sink' = Append(sink, item)
          /\ run' = [run EXCEPT !.pc = IF last THEN "done" ELSE "create",
                                !.row = IF last THEN run.row ELSE run.row + 1,
                                !.pdfsToDownload = Append(run.pdfsToDownload, item)]
    /\ UNCHANGED <<build, parked, appVars, viewVars, console, alerts>>

\* Saved with the file name composed from the state of the form at that moment
SavedLive ==
    /\ run.pc = "save"
    /\ UNCHANGED lastOp
    /\ LET row == run.snap.excelData[run.row]
           item == [bytes |-> run.newPdf, filename |-> NewFilename(build, Snapshot, row)]
           last == run.row = Len(run.snap.excelData)
           queue == Append(run.pdfsToDownload, item)
       IN IF build = "App"
          THEN IF ~last
               THEN /\ run' = [run EXCEPT !.pc = "create", !.row = run.row + 1,
                                          !.pdfsToDownload = queue]
                    /\ UNCHANGED sink
               ELSE /\ sink' = Emit(queue[1])
                    /\ run' = [run EXCEPT !.pdfsToDownload = queue, !.i = 0,
                                          !.pc = IF 0 < Len(queue) - 1 THEN "delay"
                                                 ELSE "done"]
          ELSE /\ sink' = Emit(item)
               /\ run' = [run EXCEPT !.pc = IF last THEN "done" ELSE "create",
                                     !.row = IF last THEN run.row ELSE run.row + 1]
    /\ UNCHANGED <<build, parked, appVars, viewVars, console, alerts>>

\* The rest of the loop body after newPdf.save() settles.  App.tsx pushes
\* {bytes, filename}; after the last row the download loop starts and emits
\* the first document at once.  part_000 emits inside the row loop.
Saved ==
    /\ run.pc = "save"
    /\ UNCHANGED lastOp
    /\ LET row == run.snap.excelData[run.row]
           item == [bytes |-> run.newPdf, filename |-> NewFilename(build, run.snap, row)]
           last == run.row = Len(run.snap.excelData)
           queue == Append(run.pdfsToDownload, item)
       IN IF build = "App"
          THEN IF ~last
               THEN /\ run' = [run EXCEPT !.pc = "create", !.row = run.row + 1,
                                          !.pdfsToDownload = queue]
                    /\ UNCHANGED sink
               ELSE /\ sink' = Emit(queue[1])
                    /\ run' = [run EXCEPT !.pdfsToDownload = queue, !.i = 0,
                                          !.pc = IF 0 < Len(queue) - 1 THEN "delay"
                                                 ELSE "done"]
          ELSE /\ sink' = Emit(item)
               /\ run' = [run EXCEPT !.pc = IF last THEN "done" ELSE "create",
                                     !.row = IF last THEN run.row ELSE run.row + 1]
    /\ UNCHANGED <<build, parked, appVars, viewVars, console, alerts>>

\* the 500 ms timer fires; i++; the next document is emitted
DelayElapsed ==
    /\ run.pc = "delay"
    /\ UNCHANGED lastOp
    /\ LET i == run.i + 1
       IN /\ sink' = Emit(run.pdfsToDownload[i + 1])
          /\ run' = [run EXCEPT !.i = i,
                                !.pc = IF i < Len(run.pdfsToDownload) - 1 THEN "delay"
                                       ELSE "done"]
    /\ UNCHANGED <<build, parked, appVars, viewVars, console, alerts>>

Unmounted == [mounted |-> FALSE, pdf |-> NoFile, currentPage |-> 1, totalPages |-> 1,
              selectedField |-> ""]

\* A generation run from any state the form can be in when Generate is clicked
InitGen ==
    /\ build \in {"App", "part_000"}
    /\ pdfFile \in Templates
    /\ excelData \in DistinctSeqs(RowPool, 0, MaxRows)
    /\ excelFile = [SheetA EXCEPT !.rows = excelData]
    /\ excelColumns = KeysOfFirst(excelData)
    /\ mappings \in SeqsUpTo(MappingPool, 1, MaxMappings)
    /\ customFilename \in IF build = "App" THEN {<<>>, <<"i", "n", "v">>} ELSE {<<>>}
    /\ selectedFilenameFields \in
          IF build = "App" THEN SeqsUpTo(Columns, 0, MaxFilenameFields)
          ELSE SeqsUpTo(Columns, 1, 1)
    /\ viewer = Unmounted
    /\ pendingLoads = {}
    /\ pendingReads = {}
    /\ run = IdleRun
    /\ parked = IdleRun
    /\ sink = <<>>
    /\ console = <<>>
    /\ alerts = <<>>
    /\ lastOp = NoOp

NextGen ==
    \/ generatePDFs
    \/ FontFetched
    \/ TemplateRead
    \/ TemplateLoaded
    \/ DocCreated
    \/ PagesCopied
    \/ FontEmbedded
    \/ DrawAwaited
    \/ Saved
    \/ DelayElapsed

SpecGen == InitGen /\ [][NextGen]_vars

----------------------------------------------------------------------------
(* The form: uploads, the mapping registry and the PDFViewer *)

Mounted == [mounted |-> TRUE, pdf |-> NoFile, currentPage |-> 1, totalPages |-> 1,
            selectedField |-> ""]

\* ViewerShown without the test on the columns
ViewerShownAnyColumns(file, columns) == file # NoFile

\* App.tsx 213: {pdfFile && excelColumns.length > 0 && <PDFViewer .../>}
ViewerShown(file, columns) == file # NoFile /\ Len(columns) > 0

\* The render after App state changed: PDFViewer is mounted (fresh state, the
\* effect starts loadPDF), unmounted (its state is lost, its suspended loadPDF
\* calls set state on nothing), or stays and reruns the effect when pdfFile
\* changed (PDFViewer.tsx 38-51).
Render(file, columns, fileChanged) ==
    IF ~ViewerShown(file, columns)
    THEN viewer' = Unmounted /\ pendingLoads' = {}
    ELSE IF ~viewer.mounted
    THEN viewer' = Mounted /\ pendingLoads' = {file}
    ELSE IF fileChanged
    THEN viewer' = viewer /\ pendingLoads' = pendingLoads \cup {file}
    ELSE UNCHANGED <<viewer, pendingLoads>>

\* a file is picked in the template input
handlePDFUpload(file) ==
    /\ UNCHANGED lastOp
    /\ IF file.type = PdfType
       THEN /\ pdfFile' = file
            /\ Render(file, excelColumns, TRUE)
       ELSE UNCHANGED <<pdfFile, viewer, pendingLoads>>
    /\ UNCHANGED <<build, excelFile, excelData, excelColumns, mappings, customFilename,
                   selectedFilenameFields, pendingReads, genVars, alerts>>

\* loadPDF resumes after getDocument: setPdf, setTotalPages, renderPage(1)
loadPDF(file) ==
    /\ file \in pendingLoads
    /\ UNCHANGED lastOp
    /\ viewer' = [viewer EXCEPT !.pdf = file, !.totalPages = Len(file.pages)]
    /\ pendingLoads' = pendingLoads \ {file}
    /\ UNCHANGED <<build, appVars, pendingReads, genVars, alerts>>

\* a file is picked in the spreadsheet input: setExcelFile, then the read is awaited
handleExcelUpload(file) ==
    /\ UNCHANGED lastOp
    /\ excelFile' = file
    /\ pendingReads' = pendingReads \cup {file}
    /\ UNCHANGED <<build, pdfFile, excelData, excelColumns, mappings, customFilename,
                   selectedFilenameFields, viewer, pendingLoads, genVars, alerts>>

\* handleExcelUpload resumes after file.arrayBuffer(): setExcelData, setExcelColumns
ExcelRead(file) ==
    /\ file \in pendingReads
    /\ UNCHANGED lastOp
    /\ pendingReads' = pendingReads \ {file}
    /\ excelData' = file.rows
    /\ excelColumns' = KeysOfFirst(file.rows)
    /\ Render(pdfFile, KeysOfFirst(file.rows), FALSE)
    /\ UNCHANGED <<build, pdfFile, excelFile, mappings, customFilename,
                   selectedFilenameFields, genVars, alerts>>

\* setMappings([...mappings, mapping])
AddMapping(maps, mapping) == Append(maps, mapping)

\* RemoveLast dropping the oldest entry (slice(1))
RemoveFirst(maps) == SubSeq(maps, 2, Len(maps))

\* setMappings(mappings.slice(0, -1))
RemoveLast(maps) == SubSeq(maps, 1, Max(Len(maps) - 1, 0))

handleAddMapping(mapping) ==
    /\ lastOp' = [op |-> "handleAddMapping", arg |-> mapping]
    /\ mappings' = AddMapping(mappings, mapping)

handleRemoveLastMapping ==
    /\ lastOp' = [op |-> "handleRemoveLastMapping", arg |-> NoMapping]
    /\ mappings' = RemoveLast(mappings)

\* the field <select> of PDFViewer: "" or one of the current columns
SelectField(field) ==
    /\ viewer.mounted
    /\ field \in {""} \cup Range(excelColumns)
    /\ UNCHANGED lastOp
    /\ viewer' = [viewer EXCEPT !.selectedField = field]
    /\ UNCHANGED <<build, appVars, pendingLoads, pendingReads, genVars, alerts>>

\* Previous (delta = -1, disabled on page 1) and Next (delta = 1, disabled on
\* the last page)
changePage(delta) ==
    /\ viewer.mounted
    /\ IF delta = 1 THEN viewer.currentPage # viewer.totalPages
       ELSE viewer.currentPage # 1
    /\ UNCHANGED lastOp
    /\ LET newPage == viewer.currentPage + delta
       IN IF newPage >= 1 /\ newPage <= viewer.totalPages
          THEN viewer' = [viewer EXCEPT !.currentPage = newPage]
          ELSE UNCHANGED viewer
    /\ UNCHANGED <<build, appVars, pendingLoads, pendingReads, genVars, alerts>>

\* const [scale] = useState(1.5)
ScaleNum == 3
ScaleDen == 2

\* Math.round(offset / scale), Math.round rounding halves up
ToDocument(offset) == (2 * offset * ScaleDen + ScaleNum) \div (2 * ScaleNum)

\* pointer offsets from the canvas corner that a click can have
ClickPool == {<<150, 75>>}

SelectAlert == "Please select a field first"

\* a click on the canvas at offset (px, py)
handleCanvasClick(px, py) ==
    /\ viewer.mounted
    /\ IF viewer.selectedField = ""
       THEN /\ Len(alerts) < MaxAlerts
            /\ alerts' = Append(alerts, SelectAlert)
            /\ UNCHANGED <<mappings, lastOp>>
       ELSE /\ Len(mappings) < MaxMappings
            /\ handleAddMapping([x |-> ToDocument(px), y |-> ToDocument(py),
                                 field |-> viewer.selectedField,
                                 page |-> viewer.currentPage])
            /\ UNCHANGED alerts
    /\ UNCHANGED <<build, pdfFile, excelFile, excelData, excelColumns, customFilename,
                   selectedFilenameFields, viewVars, genVars>>

\* the Undo Last Point button, rendered while mappings.length > 0
UndoLastPoint ==
    /\ viewer.mounted
    /\ Len(mappings) > 0
    /\ handleRemoveLastMapping
    /\ UNCHANGED <<build, pdfFile, excelFile, excelData, excelColumns, customFilename,
                   selectedFilenameFields, viewVars, genVars, alerts>>

InitUI ==
    /\ build = "App"
    /\ pdfFile = NoFile
    /\ excelFile = NoFile
    /\ excelData = <<>>
    /\ excelColumns = <<>>
    /\ mappings = <<>>
    /\ customFilename = <<>>
    /\ selectedFilenameFields = <<>>
    /\ viewer = Unmounted
    /\ pendingLoads = {}
    /\ pendingReads = {}
    /\ run = IdleRun
    /\ parked = IdleRun
    /\ sink = <<>>
    /\ console = <<>>
    /\ alerts = <<>>
    /\ lastOp = NoOp

NextUI ==
    \/ \E file \in Templates \cup {NotAPdf} : handlePDFUpload(file)
    \/ \E file \in Templates : loadPDF(file)
    \/ \E file \in Sheets : handleExcelUpload(file)
    \/ \E file \in Sheets : ExcelRead(file)
    \/ \E field \in {""} \cup Columns : SelectField(field)
    \/ \E delta \in {-1, 1} : changePage(delta)
    \/ \E click \in ClickPool : handleCanvasClick(click[1], click[2])
    \/ UndoLastPoint

SpecUI == InitUI /\ [][NextUI]_vars

----------------------------------------------------------------------------
(* The mapping registry alone: the two handlers applied to any registry *)

InitReg ==
    /\ build = "App"
    /\ pdfFile = NoFile
    /\ excelFile = NoFile
    /\ excelData = <<>>
    /\ excelColumns = <<>>
    /\ mappings \in SeqsUpTo(MappingPool, 0, MaxRegistry)
    /\ customFilename = <<>>
    /\ selectedFilenameFields = <<>>
    /\ viewer = Unmounted
    /\ pendingLoads = {}
    /\ pendingReads = {}
    /\ run = IdleRun
    /\ parked = IdleRun
    /\ sink = <<>>
    /\ console = <<>>
    /\ alerts = <<>>
    /\ lastOp = NoOp

RegAdd ==
    /\ Len(mappings) < MaxRegistry
    /\ \E mapping \in MappingPool : handleAddMapping(mapping)
    /\ UNCHANGED <<build, pdfFile, excelFile, excelData, excelColumns, customFilename,
                   selectedFilenameFields, viewVars, genVars, alerts>>

RegRemoveLast ==
    /\ handleRemoveLastMapping
    /\ UNCHANGED <<build, pdfFile, excelFile, excelData, excelColumns, customFilename,
                   selectedFilenameFields, viewVars, genVars, alerts>>

NextReg == RegAdd \/ RegRemoveLast

SpecReg == InitReg /\ [][NextReg]_vars

----------------------------------------------------------------------------
(* Properties *)

\* the stamps of a document that come from mapping number k
StampsOf(doc, k) == {j \in 1..Len(doc.stamps) : doc.stamps[j].m = k}

\* String(row[field]), and "" for a field the row has no value for
ValueText(row, field) ==
    IF field \in DOMAIN row THEN JsString(row[field]) ELSE <<>>

\* a produced item is the document of input row i with that row's file name
BuiltFromRow(item, i) ==
    /\ item.bytes.src = i
    /\ item.bytes.pages = pdfFile.pages
    /\ item.bytes.stamps = DrawMappings(build, pdfFile.pages, excelData[i], mappings)
    /\ item.filename = NewFilename(build, Snapshot, excelData[i])

\* C1: a run over K rows produces K documents; the i-th produced and the i-th
\* emitted document is the one built from the i-th row and carries that row's
\* file name; while the run is under way the produced and emitted documents
\* are the first rows, in order.
C1_RowOrder ==
    /\ Len(sink) <= Len(excelData)
    /\ Len(run.pdfsToDownload) <= Len(excelData)
    /\ \A i \in 1..Len(sink) : BuiltFromRow(sink[i], i)
    /\ \A i \in 1..Len(run.pdfsToDownload) : BuiltFromRow(run.pdfsToDownload[i], i)
    /\ run.pc = "done" =>
          /\ Len(sink) = Len(excelData)
          /\ build = "App" => Len(run.pdfsToDownload) = Len(excelData)

C1_Witness ==
    /\ run.pc = "done"
    /\ build = "App"
    /\ Len(sink) = 2
    /\ sink[1].filename # sink[2].filename

\* C2: every mapping whose page exists is stamped exactly once on every
\* serialized document.
C2_StampedOnce ==
    \A i \in 1..Len(sink) : \A k \in 1..Len(mappings) :
        PageExists(pdfFile.pages, mappings[k]) =>
            Cardinality(StampsOf(sink[i].bytes, k)) = 1

\* C3: the text of every stamp is String(row[field]) when the row has a value
\* for the field, whatever scalar it is, and the empty string when it has none.
C3_StampText ==
    \A i \in 1..Len(sink) : \A j \in 1..Len(sink[i].bytes.stamps) :
        LET stamp == sink[i].bytes.stamps[j]
        IN stamp.text = ValueText(excelData[sink[i].bytes.src], mappings[stamp.m].field)

\* the row's values for the filename fields, empty strings discarded
FilenameValues(row) ==
    SelectSeq([k \in 1..Len(selectedFilenameFields) |->
                  ValueText(row, selectedFilenameFields[k])],
              LAMBDA v : v # <<>>)

\* C4: the file name of a row is base-v1-...-vn.pdf for the row's non-empty
\* filename-field values v1..vn in field order, and base.pdf when none remains.
C4_Filename ==
    build = "App" =>
        \A i \in 1..Len(sink) :
            LET base == BaseFilename(customFilename, excelFile)
                values == FilenameValues(excelData[sink[i].bytes.src])
            IN sink[i].filename =
                  IF Len(values) > 0 THEN base \o Dash \o Join(values, Dash) \o DotPdf
                  ELSE base \o DotPdf

\* C5: a mapping whose page the template lacks is skipped on every document
\* and logged for that row, every other mapping is stamped, and a run that no
\* fatal error ends emits one document per row.
C5_MissingPageSkipped ==
    /\ \A i \in 1..Len(sink) : \A k \in 1..Len(mappings) :
          IF PageExists(pdfFile.pages, mappings[k])
          THEN StampsOf(sink[i].bytes, k) # {}
          ELSE /\ StampsOf(sink[i].bytes, k) = {}
               /\ \E e \in 1..Len(console) :
                     /\ console[e].msg = "Page not found"
                     /\ console[e].page = mappings[k].page
                     /\ console[e].row = sink[i].bytes.src
    /\ run.pc = "done" => Len(sink) = Len(excelData)
    /\ run.failCause = "none" => alerts = <<>> /\ run.pc # "failed"

C5_Witness ==
    /\ run.pc = "done"
    /\ Len(sink) = 2
    /\ Len(mappings) = 2
    /\ ~PageExists(pdfFile.pages, mappings[1])
    /\ PageExists(pdfFile.pages, mappings[2])
    /\ mappings[1].page = 3
    /\ Len(pdfFile.pages) = 2

\* C6: when the font fetch or the decoding of the template fails, the run
\* ends in the catch block with one alert and nothing is emitted; in App.tsx
\* no run that ends in the catch block has emitted anything.
C6_FatalNoOutput ==
    /\ run.failCause \in {"fontFetch", "templateLoad"} =>
          /\ run.pc = "failed"
          /\ Len(sink) = 0
          /\ alerts = <<ErrorAlert>>
    /\ (build = "App" /\ run.pc = "failed") => Len(sink) = 0

C6_Witness ==
    /\ run.pc = "failed"
    /\ run.failCause = "templateLoad"
    /\ Len(excelData) = 2

\* C7: after embedFont failed for one row, every other row's document is
\* emitted by the time the run is over.
C7_EmbedFailureContinues ==
    (run.pc \in {"done", "failed"} /\ run.failCause = "embedFont") =>
        \A i \in 1..Len(excelData) :
            i # run.row => \E j \in 1..Len(sink) : sink[j].bytes.src = i

\* C8: add appends the mapping and leaves the earlier entries as they were;
\* removeLast leaves the first N-1 entries of N >= 1 in order, and leaves an
\* empty registry empty.
C8_Registry ==
    [][/\ lastOp'.op = "handleAddMapping" =>
             /\ Len(mappings') = Len(mappings) + 1
             /\ mappings'[Len(mappings')] = lastOp'.arg
             /\ \A k \in 1..Len(mappings) : mappings'[k] = mappings[k]
       /\ lastOp'.op = "handleRemoveLastMapping" =>
             IF Len(mappings) >= 1
             THEN /\ Len(mappings') = Len(mappings) - 1
                  /\ \A k \in 1..Len(mappings') : mappings'[k] = mappings[k]
             ELSE mappings' = <<>>]_vars

C8_Witness ==
    /\ lastOp.op = "handleRemoveLastMapping"
    /\ Len(mappings) = 2
    /\ mappings[1] # mappings[2]

\* a message to the user other than the two the handlers raise
Reported ==
    \/ \E a \in 1..Len(alerts) : alerts[a] \notin {SelectAlert, ErrorAlert}
    \/ \E e \in 1..Len(console) :
          console[e].msg \notin {"Page not found", "Error generating PDFs"}

\* C9: once a spreadsheet upload has replaced the rows and columns (no read is
\* pending and there are rows to generate from), every mapping whose field is
\* not a current column has been reported.
C9_StaleReported ==
    (pendingReads = {} /\ Len(excelData) > 0) =>
        \A k \in 1..Len(mappings) :
            mappings[k].field \in Range(excelColumns) \/ Reported

\* C10: once the viewer has loaded the current template (no load is pending),
\* every mapping's page is one of that template's pages.
C10_PageWithinTemplate ==
    (viewer.mounted /\ pendingLoads = {} /\ viewer.pdf = pdfFile) =>
        \A k \in 1..Len(mappings) :
            /\ mappings[k].page >= 1
            /\ mappings[k].page <= Len(pdfFile.pages)

----------------------------------------------------------------------------
(* The coordinate conversions of PDFViewer on the markers of the overlay *)

MaxCoord == 9

\* Math.round(num / den) for num >= 0, den > 0
Round(num, den) == (2 * num + den) \div (2 * den)

\* left: mapping.x * scale, top: mapping.y * scale, as the fraction <<num, den>>
ToRaster(v) == <<v * ScaleNum, ScaleDen>>

\* ToDocumentAt without the division by scale
ToDocumentUnscaled(offset) == Round(offset[1], offset[2])

\* Math.round(offset / scale) for an offset <<num, den>> that need not be whole
ToDocumentAt(offset) == Round(offset[1] * ScaleDen, offset[2] * ScaleNum)

\* a click on the canvas at the offset where the overlay draws mapping k
clickAtMarker(k) ==
    /\ viewer.mounted
    /\ k \in 1..Len(mappings)
    /\ mappings[k].page = viewer.currentPage
    /\ IF viewer.selectedField = ""
       THEN /\ Len(alerts) < MaxAlerts
            /\ alerts' = Append(alerts, SelectAlert)
            /\ UNCHANGED <<mappings, lastOp>>
       ELSE /\ Len(mappings) < MaxMappings
            /\ handleAddMapping([x |-> ToDocumentAt(ToRaster(mappings[k].x)),
                                 y |-> ToDocumentAt(ToRaster(mappings[k].y)),
                                 field |-> viewer.selectedField,
                                 page |-> viewer.currentPage])
            /\ UNCHANGED alerts
    /\ UNCHANGED <<build, pdfFile, excelFile, excelData, excelColumns, customFilename,
                   selectedFilenameFields, viewVars, genVars>>

\* the viewer showing a one-page template with one mapping placed
InitCoord ==
    /\ build = "App"
    /\ pdfFile = Template1
    /\ excelFile = SheetA
    /\ excelData = SheetA.rows
    /\ excelColumns = KeysOfFirst(SheetA.rows)
    /\ \E x \in 0..MaxCoord, y \in 0..MaxCoord, field \in Range(excelColumns) :
          mappings = <<[x |-> x, y |-> y, field |-> field, page |-> 1]>>
    /\ customFilename = <<>>
    /\ selectedFilenameFields = <<>>
    /\ \E field \in {""} \cup Range(excelColumns) :
          viewer = [Mounted EXCEPT !.pdf = Template1, !.selectedField = field]
    /\ pendingLoads = {}
    /\ pendingReads = {}
    /\ run = IdleRun
    /\ parked = IdleRun
    /\ sink = <<>>
    /\ console = <<>>
    /\ alerts = <<>>
    /\ lastOp = NoOp

NextCoord ==
    \/ \E k \in 1..MaxMappings : clickAtMarker(k)
    \/ \E click \in ClickPool : handleCanvasClick(click[1], click[2])
    \/ UndoLastPoint

SpecCoord == InitCoord /\ [][NextCoord]_vars

----------------------------------------------------------------------------
(* Generate clicked while an earlier call of generatePDFs is suspended *)

\* The event loop resumes the other suspended call: the two calls share
\* nothing but the browser's download sink, the console and alert().
Switch ==
    /\ run' = parked
    /\ parked' = run
    /\ UNCHANGED <<build, appVars, viewVars, sink, console, alerts, lastOp>>

\* the form filled in, nothing generated yet
InitTwo ==
    /\ build = "App"
    /\ pdfFile = Template1
    /\ excelFile = SheetA
    /\ excelData = SheetA.rows
    /\ excelColumns = KeysOfFirst(SheetA.rows)
    /\ mappings \in SeqsUpTo(MappingPool, 1, 1)
    /\ customFilename = <<>>
    /\ selectedFilenameFields \in SeqsUpTo(Columns, 0, 1)
    /\ viewer = [Mounted EXCEPT !.pdf = Template1]
    /\ pendingLoads = {}
    /\ pendingReads = {}
    /\ run = IdleRun
    /\ parked = IdleRun
    /\ sink = <<>>
    /\ console = <<>>
    /\ alerts = <<>>
    /\ lastOp = NoOp

NextTwo == NextGen \/ Switch

SpecTwo == InitTwo /\ [][NextTwo]_vars

----------------------------------------------------------------------------
(* The file name form of App.tsx (229-287), shown while mappings.length > 0 *)

\* onChange of the Base Filename input
setCustomFilename(value) ==
    /\ build = "App"
    /\ Len(mappings) > 0
    /\ customFilename' = value
    /\ UNCHANGED <<build, pdfFile, excelFile, excelData, excelColumns, mappings,
                   selectedFilenameFields, viewVars, genVars, alerts, lastOp>>

\* + Add Field: setSelectedFilenameFields([...selectedFilenameFields, ""])
addFilenameField ==
    /\ build = "App"
    /\ Len(mappings) > 0
    /\ Len(selectedFilenameFields) < MaxFilenameFields
    /\ selectedFilenameFields' = Append(selectedFilenameFields, "")
    /\ UNCHANGED <<build, pdfFile, excelFile, excelData, excelColumns, mappings,
                   customFilename, viewVars, genVars, alerts, lastOp>>

\* onChange of the select of entry index: "" or one of the current columns
\* (part_000 216-227: the one select of filenameField)
setFilenameField(index, value) ==
    /\ Len(mappings) > 0
    /\ index \in 1..Len(selectedFilenameFields)
    /\ value \in {""} \cup Range(excelColumns)
    /\ selectedFilenameFields' = [selectedFilenameFields EXCEPT ![index] = value]
    /\ UNCHANGED <<build, pdfFile, excelFile, excelData, excelColumns, mappings,
                   customFilename, viewVars, genVars, alerts, lastOp>>

\* the x button of entry index: fields.filter((_, i) => i !== index)
removeFilenameField(index) ==
    /\ build = "App"
    /\ Len(mappings) > 0
    /\ index \in 1..Len(selectedFilenameFields)
    /\ selectedFilenameFields' =
          SubSeq(selectedFilenameFields, 1, index - 1)
             \o SubSeq(selectedFilenameFields, index + 1, Len(selectedFilenameFields))
    /\ UNCHANGED <<build, pdfFile, excelFile, excelData, excelColumns, mappings,
                   customFilename, viewVars, genVars, alerts, lastOp>>

\* the mapping a click at the offset of ClickPool places for "Amount" on page 1
PlacedMapping == [x |-> 100, y |-> 50, field |-> "Amount", page |-> 1]

\* template and spreadsheet uploaded, one mapping placed, nothing generated yet
InitForm ==
    /\ build = "App"
    /\ pdfFile = Template1
    /\ excelFile = SheetA
    /\ excelData = SheetA.rows
    /\ excelColumns = KeysOfFirst(SheetA.rows)
    /\ mappings = <<PlacedMapping>>
    /\ customFilename = <<>>
    /\ selectedFilenameFields = <<>>
    /\ viewer = [Mounted EXCEPT !.pdf = Template1, !.selectedField = "Amount"]
    /\ pendingLoads = {}
    /\ pendingReads = {}
    /\ run = IdleRun
    /\ parked = IdleRun
    /\ sink = <<>>
    /\ console = <<>>
    /\ alerts = <<>>
    /\ lastOp = NoOp

NextForm ==
    \/ \E file \in {SheetA, SheetB} : handleExcelUpload(file)
    \/ \E file \in {SheetA, SheetB} : ExcelRead(file)
    \/ addFilenameField
    \/ \E index \in 1..MaxFilenameFields, value \in {""} \cup Columns :
          setFilenameField(index, value)
    \/ \E index \in 1..MaxFilenameFields : removeFilenameField(index)
    \/ generatePDFs

SpecForm == InitForm /\ [][NextForm]_vars

----------------------------------------------------------------------------
(* The form edited while a call of generatePDFs is suspended at an await *)

\* Generate PDFs was just clicked on a filled form
InitLive ==
    /\ build \in {"App", "part_000"}
    /\ pdfFile = Template2
    /\ excelFile = SheetA
    /\ excelData = SheetA.rows
    /\ excelColumns = KeysOfFirst(SheetA.rows)
    /\ mappings = <<PlacedMapping>>
    /\ customFilename \in IF build = "App" THEN {<<>>, <<"i", "n", "v">>} ELSE {<<>>}
    /\ selectedFilenameFields = <<"Name">>
    /\ viewer = [Mounted EXCEPT !.pdf = Template2, !.totalPages = 2,
                                !.selectedField = "Amount"]
    /\ pendingLoads = {}
    /\ pendingReads = {}
    /\ run = [IdleRun EXCEPT !.pc = "fetchFont", !.snap = Snapshot]
    /\ parked = IdleRun
    /\ sink = <<>>
    /\ console = <<>>
    /\ alerts = <<>>
    /\ lastOp = NoOp

NextLive ==
    \/ FontFetched
    \/ TemplateRead
    \/ TemplateLoaded
    \/ DocCreated
    \/ PagesCopied
    \/ FontEmbedded
    \/ DrawAwaited
    \/ Saved
    \/ DelayElapsed
    \/ \E click \in ClickPool : handleCanvasClick(click[1], click[2])
    \/ UndoLastPoint
    \/ \E value \in {<<>>, <<"i", "n", "v">>, <<"x">>} : setCustomFilename(value)
    \/ \E value \in {""} \cup Columns : setFilenameField(1, value)
    \/ handleExcelUpload(SheetB)
    \/ ExcelRead(SheetB)
    \/ handlePDFUpload(Template1)
    \/ loadPDF(Template1)

SpecLive == InitLive /\ [][NextLive]_vars

\* C11: every mapping is created with a non-empty field that is one of the
\* columns current at the click.
C11_FieldInColumns ==
    [][(lastOp'.op = "handleAddMapping" /\ mappings' # mappings) =>
          /\ lastOp'.arg.field # ""
          /\ lastOp'.arg.field \in Range(excelColumns)]_vars

\* C13: while the row set is empty the column set is empty and no click on
\* the canvas is possible (the viewer, which owns the canvas, is not shown).
C13_EmptyRowsNoMapping ==
    Len(excelData) = 0 =>
        /\ excelColumns = <<>>
        /\ ~viewer.mounted
        /\ \A click \in ClickPool : ~ENABLED handleCanvasClick(click[1], click[2])

C13_Witness ==
    /\ Len(excelData) = 0
    /\ excelFile = SheetEmpty
    /\ pendingReads = {}
    /\ pdfFile # NoFile
    /\ Len(mappings) > 0

\* C19: once no spreadsheet read is pending, the stored file, the rows and the
\* columns are those of one spreadsheet, the one selected last.
C19_UploadConsistent ==
    (pendingReads = {} /\ excelFile # NoFile) =>
        /\ excelData = excelFile.rows
        /\ excelColumns = KeysOfFirst(excelFile.rows)

\* C15: every stamp is drawn at x = mapping.x - width(text)/2, the width taken
\* from the font at the stamp size (App.tsx), and at
\* y = height of the page the mapping addresses - mapping.y - 5.
C15_StampPosition ==
    \A i \in 1..Len(sink) : \A j \in 1..Len(sink[i].bytes.stamps) :
        LET stamp == sink[i].bytes.stamps[j]
            mapping == mappings[stamp.m]
        IN /\ stamp.y = sink[i].bytes.pages[mapping.page] - mapping.y - 5
           /\ sink[i].bytes.pages = pdfFile.pages
           /\ build = "App" =>
                 2 * stamp.x = 2 * mapping.x - widthOfTextAtSize(stamp.text, FontSize)

C15_Witness ==
    /\ build = "App"
    /\ Len(sink) > 0
    /\ Len(sink[1].bytes.stamps) = 2
    /\ sink[1].bytes.stamps[1].text = <<"5", "0", "0">>
    /\ sink[1].bytes.stamps[1].x = 91
    /\ sink[1].bytes.stamps[2].page = 2
    /\ sink[1].bytes.stamps[2].y = 580

\* C16 (App.tsx): nothing is downloaded before the last row is serialized,
\* one delay elapses between two consecutive downloads (run.i counts them),
\* and no delay is awaited after the last download.
C16_PacedEmission ==
    build = "App" =>
        /\ Len(sink) > 0 =>
              /\ Len(run.pdfsToDownload) = Len(excelData)
              /\ Len(sink) = run.i + 1
        /\ run.pc = "delay" => Len(sink) < Len(run.pdfsToDownload)
        /\ run.pc = "done" => run.i = Len(excelData) - 1

C16_Witness ==
    /\ build = "App"
    /\ run.pc = "done"
    /\ Len(sink) = 2
    /\ run.i = 1

\* the row loop is between PDFDocument.create() and the end of newPdf.save()
InRowLoop == run.pc \in {"create", "copyPages", "embedFont", "drawAll", "save"}

\* C17: a row's document changes only between its creation and the start of
\* its serialization, holds every stamp when serialization starts, is never
\* changed once serialized, and is created only after the document of the
\* row before it was serialized.
C17_MutationWindow ==
    /\ [](/\ run.pc \in {"copyPages", "embedFont", "drawAll", "save"} =>
                run.newPdf.src = run.row
          /\ run.pc = "save" =>
                /\ run.newPdf.font
                /\ run.newPdf.stamps =
                      DrawMappings(build, pdfFile.pages, excelData[run.row], mappings)
          /\ InRowLoop =>
                (IF build = "App" THEN Len(run.pdfsToDownload) ELSE Len(sink))
                   = run.row - 1)
    /\ [][/\ run'.newPdf # run.newPdf =>
                /\ run.pc \in {"create", "copyPages", "embedFont"}
                /\ run'.newPdf.src = run'.row
          /\ \A i \in 1..Len(run.pdfsToDownload) :
                /\ Len(run'.pdfsToDownload) >= i
                /\ run'.pdfsToDownload[i] = run.pdfsToDownload[i]
          /\ \A i \in 1..Len(sink) : Len(sink') >= i /\ sink'[i] = sink[i]]_vars

C17_Witness ==
    /\ run.pc = "save"
    /\ run.row = 2
    /\ Len(run.newPdf.stamps) >= 2

\* C20: the download sink holds a concatenation of runs, each in row order:
\* the first document is that of row 1, and after the document of row r comes
\* that of row r + 1, or that of row 1 when r was the last row.
C20_RunsNotInterleaved ==
    /\ Len(sink) > 0 => sink[1].bytes.src = 1
    /\ \A j \in 1..(Len(sink) - 1) :
          IF sink[j].bytes.src = Len(excelData)
          THEN sink[j + 1].bytes.src = 1
          ELSE sink[j + 1].bytes.src = sink[j].bytes.src + 1

\* C12: Generate starts a run only when every entry of the filename field
\* list is non-empty and is one of the current columns.
C12_FieldsValidAtStart ==
    [][(run.pc = "idle" /\ run'.pc # "idle") =>
          \A k \in 1..Len(selectedFilenameFields) :
              /\ selectedFilenameFields[k] # ""
              /\ selectedFilenameFields[k] \in Range(excelColumns)]_vars

\* a document with its file name, as the run's captured state determines it
OutputOf(b, snap, r) ==
    [bytes |-> [src |-> r, pages |-> snap.pdfFile.pages, font |-> TRUE,
                stamps |-> DrawMappings(b, snap.pdfFile.pages, snap.excelData[r],
                                        snap.mappings)],
     filename |-> NewFilename(b, snap, snap.excelData[r])]

\* C18: every queued and every downloaded document and file name of a run is
\* the one determined by the state captured when Generate was clicked; the
\* captured state never changes, and a change of the form changes neither the
\* run nor the sink.
C18_Snapshot ==
    /\ [](/\ \A j \in 1..Len(sink) :
                sink[j] = OutputOf(build, run.snap, sink[j].bytes.src)
          /\ \A j \in 1..Len(run.pdfsToDownload) :
                run.pdfsToDownload[j] = OutputOf(build, run.snap, j))
    /\ [][/\ run.pc # "idle" => run'.snap = run.snap
          /\ appVars' # appVars => (run' = run /\ sink' = sink)]_vars

C18_Witness ==
    /\ run.pc = "done"
    /\ Len(sink) = 2
    /\ pdfFile # run.snap.pdfFile
    /\ excelFile # run.snap.excelFile
    /\ excelData # run.snap.excelData
    /\ mappings # run.snap.mappings
    /\ customFilename # run.snap.customFilename
    /\ selectedFilenameFields # run.snap.selectedFilenameFields

====
